---- MODULE Spec2Model ----
(***************************************************************************)
(* Order execution engine: createOrder (orderService), the BullMQ job of   *)
(* each order as configured by createOrder and the Worker, and             *)
(* processOrder (executor), which drives one attempt through               *)
(* pending -> routing -> building -> submitted -> confirmed | failed.      *)
(*                                                                         *)
(* One action is one resumption of an async function: the completion       *)
(* (resolve or reject) of the awaited call together with the synchronous   *)
(* code that follows it up to the next await.                              *)
(*                                                                         *)
(* The queue is BullMQ as createOrder and the Worker configure it: a job   *)
(* is delayed, then active, then completed, delayed again with backoff     *)
(* (attemptsMade < attempts) or failed for good.                           *)
(*                                                                         *)
(* executeSwap moves the price by at most 0.4 of the tolerance, so it      *)
(* throws only for a negative slippageBps; the route passes                *)
(* body.slippageBps on unchecked, hence SlippageInputs has one.            *)
(*                                                                         *)
(* The Worker takes a waiting job while fewer than `concurrency` attempts  *)
(* are executing and the limiter's window (max 100 per 60000 ms, opened by *)
(* the first dispatch it counts) has room.  Time passes only while a job   *)
(* waits; processOrder's own duration is taken as zero.                    *)
(*                                                                         *)
(* wsManager: the registry orderConnections, registerConnection as the     *)
(* three resumptions of the async function (entry, after getOrderById,     *)
(* after getOrderAttempts), sendStatus, closeConnection, and the close and *)
(* error events of a socket.  sock[s].inbox records the frames written to  *)
(* an open socket.                                                         *)
(*                                                                         *)
(* env is the deployment a run starts in and never changes: whether the    *)
(* worker's queries may reject, QUEUE_CONCURRENCY, the values Math.random  *)
(* returns, which clients connect and when.  Each specification fixes it   *)
(* in its initial predicate.                                               *)
(*                                                                         *)
(* Numbers: an amount is a whole number of units, the unit being the last  *)
(* place a double holds at that magnitude, and a product of amounts is     *)
(* rounded to the nearest unit (Mul); for amounts below 2^-1022 the unit   *)
(* is 2^-1074 and Mul is the double product itself.  A price is a ratio of *)
(* amounts, kept to six decimals.  A Math.random() draw is a percentage r  *)
(* (the value r/100).                                                      *)
(* A string field that is null is "", a numeric field that is null is 0:   *)
(* the writes use `x || null`, which maps exactly these values to null.    *)
(***************************************************************************)
EXTENDS Integers, Sequences, FiniteSets, TLC

\* ---------------------------------------------------------------- bounds
\* the clock advances in steps of TickMs milliseconds
TickMs == 2000

\* ------------------------------------------------------ program constants
QUEUE_MAX_RETRIES == 3
CONCURRENCY == 10
InitialDelay == 10000
BackoffDelay == 2000
LimiterMax == 100
LimiterDuration == 60000
TxHashLength == 64
Trials == 10

\* The orders share no state but the worker pool's ceilings, and every
\* pool.query may reject at any time, so one order (Followed) is followed
\* in full; the other order ids are created where the ceilings are studied.
Orders == {"o1", "o2"}
Followed == {"o1"}
\* the WebSocket objects the route hands to registerConnection
Sockets == {"s1", "s2"}
NoSocket == "none"
Rand == {0, 50}
SlippageInputs == {-1, 100}
AmountInputs == {1000000}
PairInputs == {"usdc_usdt"}

VARIABLES
  minted,      \* order ids createOrder has generated (uuidv4)
  orders,      \* table orders: id -> row, for the ids that have a row
  attempts,    \* table order_attempts: id -> (attempt_number -> row)
  job,         \* the BullMQ job of each order
  w,           \* processOrder's locals for the attempt in flight
  persistLog,  \* statuses the attempt in flight has written to orders.status
  sentLog,     \* envelopes the attempt in flight has passed to sendStatus
  dispatches,  \* number of times the job was handed to processOrder
  env,         \* the deployment: which queries may reject, QUEUE_CONCURRENCY,
               \* which clients connect and when
  limiter,     \* the Worker's rate limiter: dispatches in the window, time left
  orderConnections,  \* wsManager's registry: orderId -> socket
  sock,        \* the WebSocket objects: readyState, listeners, frames received
  regLog,      \* sockets passed to registerConnection, per order, in call order
  routerCall   \* the latest direct call of a dexRouter function and its result

vars == <<minted, orders, attempts, job, w, persistLog, sentLog, dispatches,
          env, limiter, orderConnections, sock, regLog, routerCall>>

\* --------------------------------------------------------- dexRouter.ts
\* whole + rest/q rounded to the nearest unit, a tie to the even neighbour
HalfEven(whole, rest, q) ==
  IF 2 * rest > q \/ (2 * rest = q /\ whole % 2 = 1) THEN whole + 1 ELSE whole

\* F of the value of x
Of(x, F(_)) == CHOOSE y \in {F(v) : v \in {x}} : TRUE

\* amount x times the factor p/q, as a double holds the product
Mul(x, p, q) ==
  Of(x, LAMBDA v : HalfEven((v \div q) * p + (((v % q) * p) \div q),
                            ((v % q) * p) % q, q))

\* amount x times a price (six decimals), as a double holds the product
MulPrice(x, price) ==
  Of(<<x, price>>, LAMBDA v :
       LET a == v[1] * ((v[2] % 10^6) \div 1000)
           b == v[1] * (v[2] % 1000)
           frac == (a % 1000) * 1000 + (b % 10^6)
       IN  HalfEven(v[1] * (v[2] \div 10^6) + (a \div 1000) + (b \div 10^6)
                      + (frac \div 10^6),
                    frac % 10^6, 10^6))

\* x / y to six decimals, three at a time
Ratio(x, y) ==
  Of(<<x, y>>, LAMBDA v :
       LET r3 == ((v[1] % v[2]) * 1000) % v[2]
       IN  (v[1] \div v[2]) * 10^6
             + (((v[1] % v[2]) * 1000) \div v[2]) * 1000
             + ((r3 * 1000) \div v[2]))

\* variant: a pair that is not in basePrices has no base price
BasePriceNoFallback(pair) ==
  IF pair \in {"sol_usdc", "sol_usdt"} THEN <<100, 1>>
  ELSE IF pair \in {"usdc_sol", "usdt_sol"} THEN <<1, 100>>
  ELSE <<0, 1>>

\* basePrices[pairKey] || 1, as numerator and denominator
BasePrice(pair) ==
  IF pair \in {"sol_usdc", "sol_usdt"} THEN <<100, 1>>
  ELSE IF pair \in {"usdc_sol", "usdt_sol"} THEN <<1, 100>>
  ELSE <<1, 1>>

calculateBasePrice(pair, amountIn) ==
  Mul(amountIn, BasePrice(pair)[1], BasePrice(pair)[2])

\* variance 0.98 + r*0.04 in permille, fee 0.3%
getRaydiumQuote(pair, amountIn, r) ==
  LET baseAmount == calculateBasePrice(pair, amountIn)
      priceVariance == 980 + (r * 40) \div 100
      varied == Mul(baseAmount, priceVariance, 1000)
      amountOut == Mul(varied, 1000 - 3, 1000)
  IN  [dex |-> "raydium", price |-> Ratio(amountOut, amountIn),
       amountOut |-> amountOut, fee |-> Mul(varied, 3, 1000)]

\* variance 0.97 + r*0.05 in permille, fee 0.2%
getMeteorQuote(pair, amountIn, r) ==
  LET baseAmount == calculateBasePrice(pair, amountIn)
      priceVariance == 970 + (r * 50) \div 100
      varied == Mul(baseAmount, priceVariance, 1000)
      amountOut == Mul(varied, 1000 - 2, 1000)
  IN  [dex |-> "meteora", price |-> Ratio(amountOut, amountIn),
       amountOut |-> amountOut, fee |-> Mul(varied, 2, 1000)]

routeBestPrice(pair, amountIn, rr, rm) ==
  LET raydiumQuote == getRaydiumQuote(pair, amountIn, rr)
      meteoraQuote == getMeteorQuote(pair, amountIn, rm)
  IN  [bestQuote |-> IF raydiumQuote.amountOut > meteoraQuote.amountOut
                     THEN raydiumQuote ELSE meteoraQuote,
       raydiumQuote |-> raydiumQuote,
       meteoraQuote |-> meteoraQuote]

Abs(x) == IF x < 0 THEN -x ELSE x

TruncDiv(a, b) == IF a >= 0 THEN a \div b ELSE -((-a) \div b)

\* executedPrice = expectedPrice * (1 + (r - 0.5) * (slippageBps/10000) * 0.8)
ExecutedPrice(expectedPrice, slippageBps, r) ==
  LET perBps == TruncDiv(expectedPrice * (r - 50) * 8, 1000)
  IN  expectedPrice + TruncDiv(perBps * slippageBps, 10000)

\* variant: the bound itself counts as exceeded
SlippageExceededAtBound(expectedPrice, executedPrice, slippageBps) ==
  Abs(executedPrice - expectedPrice) * 10000 >= slippageBps * expectedPrice

\* actualSlippageBps > slippageBps, with
\* actualSlippageBps = |executedPrice - expectedPrice| / expectedPrice * 10000
SlippageExceeded(expectedPrice, executedPrice, slippageBps) ==
  Abs(executedPrice - expectedPrice) * 10000 > slippageBps * expectedPrice

\* chars of generateMockTxHash
chars ==
  <<"1", "2", "3", "4", "5", "6", "7", "8", "9",
    "A", "B", "C", "D", "E", "F", "G", "H", "J", "K", "L", "M", "N",
    "P", "Q", "R", "S", "T", "U", "V", "W", "X", "Y", "Z",
    "a", "b", "c", "d", "e", "f", "g", "h", "i", "j", "k", "m", "n",
    "o", "p", "q", "r", "s", "t", "u", "v", "w", "x", "y", "z">>

\* chars.charAt(i), i counted from 0: "" past the end
charAt(i) == IF i \in 0..(Len(chars) - 1) THEN chars[i + 1] ELSE ""

\* the draws of the loop's Math.random() calls in the call numbered callId
HashDraw(callId, i) == ((callId + i) * 33) % 100

\* variant: the index is rounded up
generateMockTxHashCeil(callId) ==
  SelectSeq([i \in 1..TxHashLength |->
               charAt((HashDraw(callId, i) * Len(chars) + 99) \div 100)],
            LAMBDA c : c # "")

\* hash += chars.charAt(Math.floor(Math.random() * chars.length)), 64 times;
\* the hash is kept as the sequence of its characters
generateMockTxHash(callId) ==
  SelectSeq([i \in 1..TxHashLength |->
               charAt((HashDraw(callId, i) * Len(chars)) \div 100)],
            LAMBDA c : c # "")

executeSwap(dex, amountIn, expectedPrice, slippageBps, r, callId) ==
  LET executedPrice == ExecutedPrice(expectedPrice, slippageBps, r)
  IN  IF SlippageExceeded(expectedPrice, executedPrice, slippageBps)
      THEN [ok |-> FALSE, txHash |-> <<>>, executedPrice |-> 0,
            amountOut |-> 0, dex |-> dex]
      ELSE [ok |-> TRUE, txHash |-> generateMockTxHash(callId),
            executedPrice |-> executedPrice,
            amountOut |-> MulPrice(amountIn, executedPrice), dex |-> dex]

\* -------------------------------------------------------- orderService.ts
NewOrderRow(pair, amountIn, slippageBps) ==
  [status |-> "pending", pair |-> pair, amountIn |-> amountIn,
   slippageBps |-> slippageBps, selectedDex |-> "", quoteRaydium |-> 0,
   quoteMeteora |-> 0, executedPrice |-> 0, amountOut |-> 0, txHash |-> <<>>,
   errorMessage |-> ""]

\* variant: the error text is not written
updateOrderStatusNoError(tbl, o, status, errorMessage) ==
  IF o \in DOMAIN tbl
  THEN [tbl EXCEPT ![o].status = status, ![o].errorMessage = ""]
  ELSE tbl

\* variant: the call returns before the UPDATE is applied
updateOrderStatusNotAwaited(tbl, o, status, errorMessage) == tbl

\* UPDATE orders SET status, error_message WHERE id: no row, no change
updateOrderStatus(tbl, o, status, errorMessage) ==
  IF o \in DOMAIN tbl
  THEN [tbl EXCEPT ![o].status = status, ![o].errorMessage = errorMessage]
  ELSE tbl

\* variant: only the status is written
updateOrderExecutionStatusOnly(tbl, o, data) ==
  IF o \in DOMAIN tbl
  THEN [tbl EXCEPT ![o].status = data.status]
  ELSE tbl

\* UPDATE orders SET status, selected_dex, quote_raydium, quote_meteora,
\* executed_price, amount_out, tx_hash, error_message WHERE id
updateOrderExecution(tbl, o, data) ==
  IF o \in DOMAIN tbl
  THEN [tbl EXCEPT ![o].status = data.status,
                   ![o].selectedDex = data.selectedDex,
                   ![o].quoteRaydium = data.quoteRaydium,
                   ![o].quoteMeteora = data.quoteMeteora,
                   ![o].executedPrice = data.executedPrice,
                   ![o].amountOut = data.amountOut,
                   ![o].txHash = data.txHash,
                   ![o].errorMessage = ""]
  ELSE tbl

\* INSERT ... ON CONFLICT (order_id, attempt_number) DO UPDATE SET status,
\* error_message, dex_used. attempted_at (DEFAULT CURRENT_TIMESTAMP) is set
\* by the insert only; it is the rank of the insert among the order's rows.
recordAttempt(tbl, o, attemptNumber, status, errorMessage, dexUsed) ==
  LET row == [status |-> status, errorMessage |-> errorMessage,
              dexUsed |-> dexUsed,
              attemptedAt |-> IF attemptNumber \in DOMAIN tbl[o]
                              THEN tbl[o][attemptNumber].attemptedAt
                              ELSE Cardinality(DOMAIN tbl[o]) + 1]
  IN  [tbl EXCEPT ![o] =
        [n \in (DOMAIN tbl[o]) \cup {attemptNumber} |->
           IF n = attemptNumber THEN row ELSE tbl[o][n]]]

\* SELECT ... WHERE id = $1: the row, or null (here NoRow)
NoRow == [status |-> ""]
getOrderById(tbl, o) == IF o \in DOMAIN tbl THEN tbl[o] ELSE NoRow

\* variant: ORDER BY attempted_at DESC, attempt_number DESC
getOrderAttemptsDesc(tbl, o) ==
  LET before(a, b) == \/ tbl[o][a].attemptedAt > tbl[o][b].attemptedAt
                      \/ /\ tbl[o][a].attemptedAt = tbl[o][b].attemptedAt
                         /\ a > b
      RECURSIVE listed(_)
      listed(S) == IF S = {} THEN <<>>
                   ELSE LET n == CHOOSE x \in S : \A y \in S \ {x} : before(x, y)
                        IN  <<n>> \o listed(S \ {n})
      ns == listed(DOMAIN tbl[o])
  IN  [i \in 1..Len(ns) |->
         [attempt_number |-> ns[i], status |-> tbl[o][ns[i]].status,
          error_message |-> tbl[o][ns[i]].errorMessage,
          dex_used |-> tbl[o][ns[i]].dexUsed,
          attempted_at |-> tbl[o][ns[i]].attemptedAt]]

\* SELECT ... FROM order_attempts WHERE order_id = $1
\* ORDER BY attempted_at ASC, attempt_number ASC
getOrderAttempts(tbl, o) ==
  LET before(a, b) == \/ tbl[o][a].attemptedAt < tbl[o][b].attemptedAt
                      \/ /\ tbl[o][a].attemptedAt = tbl[o][b].attemptedAt
                         /\ a < b
      RECURSIVE listed(_)
      listed(S) == IF S = {} THEN <<>>
                   ELSE LET n == CHOOSE x \in S : \A y \in S \ {x} : before(x, y)
                        IN  <<n>> \o listed(S \ {n})
      ns == listed(DOMAIN tbl[o])
  IN  [i \in 1..Len(ns) |->
         [attempt_number |-> ns[i], status |-> tbl[o][ns[i]].status,
          error_message |-> tbl[o][ns[i]].errorMessage,
          dex_used |-> tbl[o][ns[i]].dexUsed,
          attempted_at |-> tbl[o][ns[i]].attemptedAt]]

\* order_attempts.order_id REFERENCES orders(id): the insert is rejected
\* when the order row does not exist
ForeignKeyOk(o) == o \in DOMAIN orders

\* ------------------------------------------------------------- the queue
\* variant: the ceiling read as a number of retries after the first attempt
JobAttemptsPlusOne == QUEUE_MAX_RETRIES + 1

\* opts.attempts of the job (createOrder)
JobAttempts == QUEUE_MAX_RETRIES

RECURSIVE Pow2(_)
Pow2(n) == IF n <= 0 THEN 1 ELSE 2 * Pow2(n - 1)

\* variant: backoff {type: 'fixed'}
BackoffFixed(n) == BackoffDelay

\* backoff {type: 'exponential', delay: 2000} after failed attempt n
Backoff(n) == BackoffDelay * Pow2(n - 1)

NoJob == [state |-> "none", attemptsMade |-> 0, delay |-> 0, waited |-> 0]

Active == {o \in Orders : job[o].state = "active"}

\* ----------------------------------------------------- processOrder locals
NoQuote == [dex |-> "", price |-> 0, amountOut |-> 0, fee |-> 0]
NoExec == [ok |-> FALSE, txHash |-> <<>>, executedPrice |-> 0, amountOut |-> 0,
           dex |-> ""]
\* the payload fields of a status message, absent ones as null
NoPayload == [txHash |-> <<>>, executedPrice |-> 0, amountOut |-> 0, dex |-> "",
              raydiumQuote |-> 0, meteoraQuote |-> 0]
Idle == [pc |-> "idle", attemptNumber |-> 0, amountIn |-> 0, pair |-> "",
         slippageBps |-> 0, bestQuote |-> NoQuote, raydiumQuote |-> NoQuote,
         meteoraQuote |-> NoQuote, exec |-> NoExec, error |-> "",
         thrown |-> ""]

\* ------------------------------------------------------------ wsManager.ts
\* a WebSocket before the client has connected
\* (rejected: the reads of registerConnection that were caught and logged)
NewSocket == [readyState |-> "NEW", orderId |-> "", pc |-> "none",
              listening |-> FALSE, inbox |-> <<>>, rejected |-> {}]

\* the route's handshake frame
ConnectedMsg(o) ==
  [orderId |-> o, status |-> "connected",
   message |-> "WebSocket connection established"]

\* stateMsg of registerConnection
StateMsg(o, order) ==
  [orderId |-> o, status |-> order.status, selectedDex |-> order.selectedDex,
   executedPrice |-> order.executedPrice, amountOut |-> order.amountOut,
   txHash |-> order.txHash, message |-> "Restored last known status"]

\* attemptMsg of registerConnection
AttemptMsg(o, a) ==
  [orderId |-> o, status |-> a.status, attemptNumber |-> a.attempt_number,
   errorMessage |-> a.error_message, dexUsed |-> a.dex_used,
   attemptedAt |-> a.attempted_at, message |-> "Replayed attempt"]

\* message of sendStatus: {orderId, status, timestamp, ...payload}
StatusMsg(o, e) ==
  [orderId |-> o, status |-> e.status, error |-> e.error,
   attempts |-> e.attempts, payload |-> e.payload, message |-> ""]

\* socket.send(frame): the frame reaches the client of an open socket; inbox
\* is the record of the frames received, kept where env.frames says so
socketSend(s, frame) ==
  IF s.readyState = "OPEN" /\ env.frames
  THEN [s EXCEPT !.inbox = Append(@, frame)] ELSE s

RECURSIVE socketSendAll(_, _)
socketSendAll(s, frames) ==
  IF frames = <<>> THEN s
  ELSE socketSendAll(socketSend(s, Head(frames)), Tail(frames))

\* the socket sendStatus writes to, NoSocket when it only warns
Target(registry, sockets, o) ==
  IF registry[o] # NoSocket /\ sockets[registry[o]].readyState = "OPEN"
  THEN registry[o] ELSE NoSocket

\* variant: no look at the registry entry and readyState, the frame is
\* written to whatever socket was registered last
sendStatusUnguarded(registry, sockets, o, e) ==
  IF registry[o] = NoSocket
  THEN [s \in Sockets |->
          IF sockets[s].orderId = o
          THEN [sockets[s] EXCEPT !.inbox = Append(@, StatusMsg(o, e))]
          ELSE sockets[s]]
  ELSE [sockets EXCEPT ![registry[o]].inbox = Append(@, StatusMsg(o, e))]

\* variant: the frame is queued ahead of the frames already written
sendStatusReordered(registry, sockets, o, e) ==
  LET s == Target(registry, sockets, o)
  IN  IF s = NoSocket THEN sockets
      ELSE [sockets EXCEPT ![s].inbox = <<StatusMsg(o, e)>> \o @]

\* sendStatus(orderId, status, payload): the sockets afterwards
sendStatus(registry, sockets, o, e) ==
  LET s == Target(registry, sockets, o)
  IN  IF s = NoSocket THEN sockets
      ELSE [sockets EXCEPT ![s] = socketSend(@, StatusMsg(o, e))]

\* variant: the socket is closed, its registration is kept
closeConnectionKeep(registry, sockets, o) ==
  LET s == registry[o]
  IN  IF s # NoSocket
      THEN [registry |-> registry,
            sockets |-> [sockets EXCEPT ![s].readyState =
                           IF @ = "OPEN" THEN "CLOSING" ELSE @]]
      ELSE [registry |-> registry, sockets |-> sockets]

\* closeConnection(orderId): socket.close() starts the closing handshake
closeConnection(registry, sockets, o) ==
  LET s == registry[o]
  IN  IF s # NoSocket
      THEN [registry |-> [registry EXCEPT ![o] = NoSocket],
            sockets |-> [sockets EXCEPT ![s].readyState =
                           IF @ = "OPEN" THEN "CLOSING" ELSE @]]
      ELSE [registry |-> registry, sockets |-> sockets]

\* wsManager.sendStatus as seen from processOrder: the envelope handed over
Envelope(status, error, attemptsField) ==
  [status |-> status, error |-> error, attempts |-> attemptsField,
   payload |-> NoPayload]

\* processOrder calls sendStatus with envelope e; sentLog also keeps the
\* socket the frame was written to (NoSocket: the call only warned)
SendEnvelope(o, e) ==
  /\ sentLog' = [sentLog EXCEPT ![o] =
                   Append(@, [status |-> e.status, error |-> e.error,
                              attempts |-> e.attempts, payload |-> e.payload,
                              to |-> Target(orderConnections, sock, o)])]
  /\ sock' = sendStatus(orderConnections, sock, o, e)

\* the stage-specific fields processOrder passes with each status, taken
\* from its locals
Payload(o, status) ==
  IF status = "building"
  THEN [NoPayload EXCEPT !.dex = w[o].bestQuote.dex,
                         !.raydiumQuote = w[o].raydiumQuote.price,
                         !.meteoraQuote = w[o].meteoraQuote.price]
  ELSE IF status = "submitted"
  THEN [NoPayload EXCEPT !.dex = w[o].bestQuote.dex]
  ELSE IF status = "confirmed"
  THEN [txHash |-> w[o].exec.txHash,
        executedPrice |-> w[o].exec.executedPrice,
        amountOut |-> w[o].exec.amountOut,
        dex |-> w[o].bestQuote.dex,
        raydiumQuote |-> w[o].raydiumQuote.price,
        meteoraQuote |-> w[o].meteoraQuote.price]
  ELSE NoPayload

Send(o, status) ==
  SendEnvelope(o, [Envelope(status, "", 0) EXCEPT !.payload = Payload(o, status)])

\* the UPDATE changed the row of o: its status is now the given one
Persisted(o, status) ==
  persistLog' = IF o \in DOMAIN orders
                THEN [persistLog EXCEPT ![o] = Append(@, status)]
                ELSE persistLog

\* a pool.query of the worker resolves or rejects (connection lost,
\* statement failed)
MayFail == IF env.workerFaults THEN BOOLEAN ELSE {FALSE}

\* a pool.query of registerConnection resolves or rejects
MayFailRead == BOOLEAN

\* no dexRouter function was called directly yet
NoCall == [fn |-> "none", trials |-> 0, thrown |-> FALSE]

\* control enters the catch block with this error; the catch awaits recordAttempt
Catch(o, msg) == w' = [w EXCEPT ![o].pc = "catchRecord", ![o].error = msg]

\* the state after the modules are loaded: empty tables, empty queue, empty
\* registry, no rate-limit window open
Start ==
  /\ minted = {}
  /\ orders = <<>>
  /\ attempts = [o \in Orders |-> <<>>]
  /\ job = [o \in Orders |-> NoJob]
  /\ w = [o \in Orders |-> Idle]
  /\ persistLog = [o \in Orders |-> <<>>]
  /\ sentLog = [o \in Orders |-> <<>>]
  /\ dispatches = [o \in Orders |-> 0]
  /\ orderConnections = [o \in Orders |-> NoSocket]
  /\ sock = [s \in Sockets |-> NewSocket]
  /\ regLog = [o \in Orders |-> <<>>]
  /\ routerCall = NoCall

\* default deployment (QUEUE_CONCURRENCY unset), a database whose queries
\* may reject, no WebSocket client
Init ==
  /\ Start
  /\ limiter = [count |-> 0, ttl |-> 0]
  /\ env = [workerFaults |-> TRUE, concurrency |-> CONCURRENCY, rand |-> Rand,
            clients |-> {}, lateOnly |-> FALSE, frames |-> TRUE]

\* ------------------------------------------------------------ createOrder
\* INSERT INTO orders ... status 'pending' (a rejected insert leaves nothing)
CreateOrderInsert(o) ==
  /\ o \notin minted
  /\ \E pair \in PairInputs, amountIn \in AmountInputs, bps \in SlippageInputs :
       orders' = [x \in (DOMAIN orders) \cup {o} |->
                    IF x = o THEN NewOrderRow(pair, amountIn, bps) ELSE orders[x]]
  /\ minted' = minted \cup {o}
  /\ UNCHANGED <<routerCall, env, limiter, orderConnections, regLog>>
  /\ UNCHANGED <<attempts, job, w, persistLog, sentLog, sock, dispatches>>

\* orderQueue.add('execute-order', {orderId}, {delay, attempts, backoff})
CreateOrderEnqueue(o) ==
  /\ o \in minted
  /\ job[o].state = "none"
  /\ job' = [job EXCEPT ![o] = [state |-> "queued", attemptsMade |-> 0,
                                delay |-> InitialDelay, waited |-> 0]]
  /\ UNCHANGED <<routerCall, env, limiter, orderConnections, regLog>>
  /\ UNCHANGED <<minted, orders, attempts, w, persistLog, sentLog, sock, dispatches>>

\* ------------------------------------------------------------------ queue
\* variant: a window that holds one dispatch more
LimiterFreePlusOne == limiter.count <= LimiterMax

\* limiter {max: 100, duration: 60000}: the window has room for a dispatch
LimiterFree == limiter.count < LimiterMax

\* time passes while a job waits for its delay or for the rate-limit window:
\* the delay of every delayed job runs down, and so does the window, which
\* is forgotten when it has run out
Tick ==
  /\ \E o \in Orders :
       /\ job[o].state = "queued"
       /\ job[o].delay > 0 \/ ~LimiterFree
  /\ job' = [o \in Orders |->
               IF job[o].state = "queued" /\ job[o].delay > 0
               THEN [job[o] EXCEPT !.delay = IF @ > TickMs THEN @ - TickMs ELSE 0,
                                   !.waited = @ + TickMs]
               ELSE job[o]]
  /\ limiter' = IF limiter.ttl > TickMs
                THEN [limiter EXCEPT !.ttl = @ - TickMs]
                ELSE [count |-> 0, ttl |-> 0]
  /\ UNCHANGED <<routerCall, env, orderConnections, regLog>>
  /\ UNCHANGED <<minted, orders, attempts, w, persistLog, sentLog, sock, dispatches>>

\* variant: a delayed job is handed over like a waiting one
EligibleIgnoringDelay(o) ==
  /\ job[o].state = "queued"
  /\ Cardinality(Active) < env.concurrency
  /\ LimiterFree

\* variant: a worker with one slot more than configured
EligibleOverCeiling(o) ==
  /\ job[o].state = "queued"
  /\ job[o].delay = 0
  /\ Cardinality(Active) <= env.concurrency
  /\ LimiterFree

\* variant: a worker that runs one attempt at a time
EligibleOneAtATime(o) ==
  /\ job[o].state = "queued"
  /\ job[o].delay = 0
  /\ Cardinality(Active) < 1
  /\ LimiterFree

\* the job may be handed to a worker
Eligible(o) ==
  /\ job[o].state = "queued"
  /\ job[o].delay = 0
  /\ Cardinality(Active) < env.concurrency
  /\ LimiterFree

\* variant: the attempt number is job.attemptsMade
DispatchZeroBased(o) ==
  /\ Eligible(o)
  /\ job' = [job EXCEPT ![o].state = "active"]
  /\ w' = [w EXCEPT ![o] = [Idle EXCEPT !.pc = "getOrder",
                                        !.attemptNumber = job[o].attemptsMade]]
  /\ persistLog' = [persistLog EXCEPT ![o] = <<>>]
  /\ sentLog' = [sentLog EXCEPT ![o] = <<>>]
  /\ dispatches' = [dispatches EXCEPT ![o] = @ + 1]
  /\ limiter' = IF limiter.count = 0
                THEN [count |-> 1, ttl |-> LimiterDuration]
                ELSE [limiter EXCEPT !.count = @ + 1]
  /\ UNCHANGED <<routerCall, env, orderConnections, sock, regLog>>
  /\ UNCHANGED <<minted, orders, attempts>>

\* the Worker takes the job and calls processOrder(job)
Dispatch(o) ==
  /\ Eligible(o)
  /\ job' = [job EXCEPT ![o].state = "active"]
  /\ w' = [w EXCEPT ![o] = [Idle EXCEPT !.pc = "getOrder",
                                        !.attemptNumber = job[o].attemptsMade + 1]]
  /\ persistLog' = [persistLog EXCEPT ![o] = <<>>]
  /\ sentLog' = [sentLog EXCEPT ![o] = <<>>]
  /\ dispatches' = [dispatches EXCEPT ![o] = @ + 1]
  /\ limiter' = IF limiter.count = 0
                THEN [count |-> 1, ttl |-> LimiterDuration]
                ELSE [limiter EXCEPT !.count = @ + 1]
  /\ UNCHANGED <<routerCall, env, orderConnections, sock, regLog>>
  /\ UNCHANGED <<minted, orders, attempts>>

\* variant: the job goes back to the waiting jobs when processOrder returns
JobCompletedRequeued(o) ==
  /\ w[o].pc = "returned"
  /\ job' = [job EXCEPT ![o].state = "queued"]
  /\ w' = [w EXCEPT ![o] = Idle]
  /\ UNCHANGED <<routerCall, env, limiter, orderConnections, regLog>>
  /\ UNCHANGED <<minted, orders, attempts, persistLog, sentLog, sock, dispatches>>

\* processOrder returned: the job is completed
JobCompleted(o) ==
  /\ w[o].pc = "returned"
  /\ job' = [job EXCEPT ![o].state = "completed"]
  /\ w' = [w EXCEPT ![o] = Idle]
  /\ UNCHANGED <<routerCall, env, limiter, orderConnections, regLog>>
  /\ UNCHANGED <<minted, orders, attempts, persistLog, sentLog, sock, dispatches>>

\* processOrder threw: retry with backoff while attempts remain, else dead
JobFailed(o) ==
  /\ w[o].pc = "thrown"
  /\ LET made == job[o].attemptsMade + 1
     IN  job' = [job EXCEPT ![o] =
                   IF made < JobAttempts
                   THEN [state |-> "queued", attemptsMade |-> made,
                         delay |-> Backoff(made), waited |-> 0]
                   ELSE [state |-> "failed", attemptsMade |-> made,
                         delay |-> 0, waited |-> job[o].waited]]
  /\ w' = [w EXCEPT ![o] = Idle]
  /\ UNCHANGED <<routerCall, env, limiter, orderConnections, regLog>>
  /\ UNCHANGED <<minted, orders, attempts, persistLog, sentLog, sock, dispatches>>

\* ----------------------------------------------------------- processOrder
\* variant: pending is broadcast before the order is looked at
GetOrderPendingFirst(o) ==
  /\ w[o].pc = "getOrder"
  /\ \E fail \in MayFail :
       IF fail
       THEN Catch(o, "db: getOrderById") /\ UNCHANGED <<sentLog, sock>>
       ELSE /\ Send(o, "pending")
            /\ IF o \notin DOMAIN orders
               THEN Catch(o, "Order not found")
               ELSE w' = [w EXCEPT ![o].pc = "setRouting",
                                   ![o].amountIn = orders[o].amountIn,
                                   ![o].pair = orders[o].pair,
                                   ![o].slippageBps = orders[o].slippageBps]
  /\ UNCHANGED <<routerCall, env, limiter, orderConnections, regLog>>
  /\ UNCHANGED <<minted, orders, attempts, job, persistLog, dispatches>>

\* variant: an order found past pending is taken up at the quote request
GetOrderResuming(o) ==
  /\ w[o].pc = "getOrder"
  /\ \E fail \in MayFail :
       IF fail
       THEN /\ Catch(o, "db: getOrderById")
            /\ UNCHANGED <<sentLog, sock>>
       ELSE /\ IF o \notin DOMAIN orders
               THEN Catch(o, "Order not found") /\ UNCHANGED <<sentLog, sock>>
               ELSE IF orders[o].status # "pending"
               THEN /\ w' = [w EXCEPT ![o].pc = "route",
                                      ![o].amountIn = orders[o].amountIn,
                                      ![o].pair = orders[o].pair,
                                      ![o].slippageBps = orders[o].slippageBps]
                    /\ UNCHANGED <<sentLog, sock>>
               ELSE /\ w' = [w EXCEPT ![o].pc = "setRouting",
                                      ![o].amountIn = orders[o].amountIn,
                                      ![o].pair = orders[o].pair,
                                      ![o].slippageBps = orders[o].slippageBps]
                    /\ Send(o, "pending")
  /\ UNCHANGED <<routerCall, env, limiter, orderConnections, regLog>>
  /\ UNCHANGED <<minted, orders, attempts, job, persistLog, dispatches>>

\* await getOrderById; throw if absent; sendStatus pending
GetOrder(o) ==
  /\ w[o].pc = "getOrder"
  /\ \E fail \in MayFail :
       IF fail
       THEN /\ Catch(o, "db: getOrderById")
            /\ UNCHANGED <<sentLog, sock>>
       ELSE /\ IF o \notin DOMAIN orders
               THEN Catch(o, "Order not found") /\ UNCHANGED <<sentLog, sock>>
               ELSE /\ w' = [w EXCEPT ![o].pc = "setRouting",
                                      ![o].amountIn = orders[o].amountIn,
                                      ![o].pair = orders[o].pair,
                                      ![o].slippageBps = orders[o].slippageBps]
                    /\ Send(o, "pending")
  /\ UNCHANGED <<routerCall, env, limiter, orderConnections, regLog>>
  /\ UNCHANGED <<minted, orders, attempts, job, persistLog, dispatches>>

\* await updateOrderStatus(orderId, stage); sendStatus(orderId, stage)
SetStage(o, pc, stage, next, tag) ==
  /\ w[o].pc = pc
  /\ \E fail \in MayFail :
       IF fail
       THEN /\ Catch(o, tag)
            /\ UNCHANGED <<orders, persistLog, sentLog, sock>>
       ELSE /\ orders' = updateOrderStatus(orders, o, stage, "")
            /\ Persisted(o, stage)
            /\ Send(o, stage)
            /\ w' = [w EXCEPT ![o].pc = next]
  /\ UNCHANGED <<routerCall, env, limiter, orderConnections, regLog>>
  /\ UNCHANGED <<minted, attempts, job, dispatches>>

SetRouting(o) == SetStage(o, "setRouting", "routing", "route", "db: updateOrderStatus routing")

\* await routeBestPrice(order.tokenIn, order.tokenOut, order.amountIn)
Route(o) ==
  /\ w[o].pc = "route"
  /\ \E rr \in env.rand, rm \in env.rand :
       LET q == routeBestPrice(w[o].pair, w[o].amountIn, rr, rm)
       IN  w' = [w EXCEPT ![o].pc = "recordRouting",
                          ![o].bestQuote = q.bestQuote,
                          ![o].raydiumQuote = q.raydiumQuote,
                          ![o].meteoraQuote = q.meteoraQuote]
  /\ UNCHANGED <<routerCall, env, limiter, orderConnections, regLog>>
  /\ UNCHANGED <<minted, orders, attempts, job, persistLog, sentLog, sock, dispatches>>

\* await recordAttempt(orderId, attemptNumber, 'routing', undefined, bestQuote.dex)
RecordRouting(o) ==
  /\ w[o].pc = "recordRouting"
  /\ \E fail \in MayFail :
       IF fail
       THEN /\ Catch(o, "db: recordAttempt routing")
            /\ UNCHANGED attempts
       ELSE /\ IF ForeignKeyOk(o)
               THEN /\ attempts' = recordAttempt(attempts, o, w[o].attemptNumber,
                                                 "routing", "", w[o].bestQuote.dex)
                    /\ w' = [w EXCEPT ![o].pc = "setBuilding"]
               ELSE Catch(o, "fk: order_attempts") /\ UNCHANGED attempts
  /\ UNCHANGED <<routerCall, env, limiter, orderConnections, regLog>>
  /\ UNCHANGED <<minted, orders, job, persistLog, sentLog, sock, dispatches>>

SetBuilding(o) == SetStage(o, "setBuilding", "building", "setSubmitted", "db: updateOrderStatus building")

SetSubmitted(o) == SetStage(o, "setSubmitted", "submitted", "execute", "db: updateOrderStatus submitted")

\* await executeSwap(bestQuote.dex, ..., order.amountIn, bestQuote.price, order.slippageBps)
Execute(o) ==
  /\ w[o].pc = "execute"
  /\ \E r \in env.rand :
       LET res == executeSwap(w[o].bestQuote.dex, w[o].amountIn, w[o].bestQuote.price,
                              w[o].slippageBps, r, dispatches[o])
       IN  IF res.ok
           THEN w' = [w EXCEPT ![o].pc = "persistConfirmed", ![o].exec = res]
           ELSE Catch(o, "Slippage tolerance exceeded")
  /\ UNCHANGED <<routerCall, env, limiter, orderConnections, regLog>>
  /\ UNCHANGED <<minted, orders, attempts, job, persistLog, sentLog, sock, dispatches>>

\* await updateOrderExecution(orderId, {status: 'confirmed', ...})
PersistConfirmed(o) ==
  /\ w[o].pc = "persistConfirmed"
  /\ \E fail \in MayFail :
       IF fail
       THEN /\ Catch(o, "db: updateOrderExecution")
            /\ UNCHANGED <<orders, persistLog>>
       ELSE /\ orders' = updateOrderExecution(orders, o,
                           [status |-> "confirmed",
                            selectedDex |-> w[o].bestQuote.dex,
                            quoteRaydium |-> w[o].raydiumQuote.price,
                            quoteMeteora |-> w[o].meteoraQuote.price,
                            executedPrice |-> w[o].exec.executedPrice,
                            amountOut |-> w[o].exec.amountOut,
                            txHash |-> w[o].exec.txHash])
            /\ Persisted(o, "confirmed")
            /\ w' = [w EXCEPT ![o].pc = "recordConfirmed"]
  /\ UNCHANGED <<routerCall, env, limiter, orderConnections, regLog>>
  /\ UNCHANGED <<minted, attempts, job, sentLog, sock, dispatches>>

\* await recordAttempt(..., 'confirmed', undefined, bestQuote.dex); sendStatus confirmed; return
RecordConfirmed(o) ==
  /\ w[o].pc = "recordConfirmed"
  /\ \E fail \in MayFail :
       IF fail
       THEN /\ Catch(o, "db: recordAttempt confirmed")
            /\ UNCHANGED <<attempts, sentLog, sock>>
       ELSE /\ IF ForeignKeyOk(o)
               THEN /\ attempts' = recordAttempt(attempts, o, w[o].attemptNumber,
                                                 "confirmed", "", w[o].bestQuote.dex)
                    /\ Send(o, "confirmed")
                    /\ w' = [w EXCEPT ![o].pc = "returned"]
               ELSE Catch(o, "fk: order_attempts") /\ UNCHANGED <<attempts, sentLog, sock>>
  /\ UNCHANGED <<routerCall, env, limiter, orderConnections, regLog>>
  /\ UNCHANGED <<minted, orders, job, persistLog, dispatches>>

\* variant: the order is given up one attempt early
IsLastAttemptEarly(attemptNumber) == attemptNumber >= QUEUE_MAX_RETRIES - 1

\* attemptNumber >= parseInt(process.env.QUEUE_MAX_RETRIES || '3')
IsLastAttempt(attemptNumber) == attemptNumber >= QUEUE_MAX_RETRIES

\* catch: await recordAttempt(orderId, attemptNumber, 'failed', errorMessage);
\* a rejection here leaves the catch block with the new error
CatchRecord(o) ==
  /\ w[o].pc = "catchRecord"
  /\ \E fail \in MayFail :
       IF fail
       THEN /\ w' = [w EXCEPT ![o].pc = "thrown", ![o].thrown = "db: recordAttempt failed"]
            /\ UNCHANGED attempts
       ELSE /\ IF ForeignKeyOk(o)
               THEN /\ attempts' = recordAttempt(attempts, o, w[o].attemptNumber,
                                                 "failed", w[o].error, "")
                    /\ w' = IF IsLastAttempt(w[o].attemptNumber)
                            THEN [w EXCEPT ![o].pc = "catchSetFailed"]
                            ELSE [w EXCEPT ![o].pc = "thrown", ![o].thrown = w[o].error]
               ELSE /\ w' = [w EXCEPT ![o].pc = "thrown", ![o].thrown = "fk: order_attempts"]
                    /\ UNCHANGED attempts
  /\ UNCHANGED <<routerCall, env, limiter, orderConnections, regLog>>
  /\ UNCHANGED <<minted, orders, job, persistLog, sentLog, sock, dispatches>>

\* catch, last attempt: await updateOrderStatus(orderId, 'failed', errorMessage);
\* sendStatus(orderId, 'failed', {error, attempts}); throw error
CatchSetFailed(o) ==
  /\ w[o].pc = "catchSetFailed"
  /\ \E fail \in MayFail :
       IF fail
       THEN /\ w' = [w EXCEPT ![o].pc = "thrown", ![o].thrown = "db: updateOrderStatus failed"]
            /\ UNCHANGED <<orders, persistLog, sentLog, sock>>
       ELSE /\ orders' = updateOrderStatus(orders, o, "failed", w[o].error)
            /\ Persisted(o, "failed")
            /\ SendEnvelope(o, Envelope("failed", w[o].error, w[o].attemptNumber))
            /\ w' = [w EXCEPT ![o].pc = "thrown", ![o].thrown = w[o].error]
  /\ UNCHANGED <<routerCall, env, limiter, orderConnections, regLog>>
  /\ UNCHANGED <<minted, attempts, job, dispatches>>

\* the order ids of this run are the followed ones
Next ==
  \E o \in Followed :
    \/ CreateOrderInsert(o)
    \/ CreateOrderEnqueue(o)
    \/ Tick
    \/ Dispatch(o)
    \/ GetOrder(o)
    \/ SetRouting(o)
    \/ Route(o)
    \/ RecordRouting(o)
    \/ SetBuilding(o)
    \/ SetSubmitted(o)
    \/ Execute(o)
    \/ PersistConfirmed(o)
    \/ RecordConfirmed(o)
    \/ CatchRecord(o)
    \/ CatchSetFailed(o)
    \/ JobCompleted(o)
    \/ JobFailed(o)

Spec == Init /\ [][Next]_vars

\* the steps of the worker and of the queue for order o
Progress(o) ==
  \/ Dispatch(o) \/ GetOrder(o) \/ SetRouting(o) \/ Route(o)
  \/ RecordRouting(o) \/ SetBuilding(o) \/ SetSubmitted(o) \/ Execute(o)
  \/ PersistConfirmed(o) \/ RecordConfirmed(o) \/ CatchRecord(o)
  \/ CatchSetFailed(o) \/ JobCompleted(o) \/ JobFailed(o)

\* the queue and its workers are scheduled fairly, time passes, and a
\* created order is enqueued
FairSpec ==
  /\ Init /\ [][Next]_vars
  /\ WF_vars(Tick)
  /\ \A o \in Orders : WF_vars(CreateOrderEnqueue(o)) /\ WF_vars(Progress(o))

\* the row of an order is removed from outside (orders rows are referenced
\* ON DELETE CASCADE by order_attempts)
DeleteOrder(o) ==
  /\ o \in DOMAIN orders
  /\ orders' = [x \in (DOMAIN orders) \ {o} |-> orders[x]]
  /\ attempts' = [attempts EXCEPT ![o] = <<>>]
  /\ UNCHANGED <<routerCall, env, limiter, orderConnections, regLog>>
  /\ UNCHANGED <<minted, job, w, persistLog, sentLog, sock, dispatches>>

NextAbsent == Next \/ \E o \in Orders : DeleteOrder(o)

SpecAbsent == Init /\ [][NextAbsent]_vars

\* await orderQueue.add(...) rejects (Redis cannot be reached): createOrder
\* throws after its INSERT, no job exists and none will be added
CreateOrderEnqueueRejected(o) ==
  /\ o \in minted
  /\ job[o].state = "none"
  /\ job' = [job EXCEPT ![o].state = "unqueued"]
  /\ UNCHANGED <<routerCall, env, limiter, orderConnections, regLog>>
  /\ UNCHANGED <<minted, orders, attempts, w, persistLog, sentLog, sock, dispatches>>

NextQueueFaults == Next \/ \E o \in Followed : CreateOrderEnqueueRejected(o)

\* the default deployment with a queue whose add may reject
SpecQueueFaults == Init /\ [][NextQueueFaults]_vars

\* ------------------------------------------------- the worker's ceilings
\* QUEUE_CONCURRENCY set one below the number of orders, a database whose
\* queries resolve, and a rate-limit window that has just been opened by
\* other jobs of the queue and has room for as many dispatches as there
\* are orders
InitPool ==
  /\ Start
  /\ limiter = [count |-> LimiterMax - Cardinality(Orders),
                ttl |-> LimiterDuration]
  /\ env = [workerFaults |-> FALSE, concurrency |-> Cardinality(Orders) - 1,
            rand |-> Rand, clients |-> {}, lateOnly |-> FALSE,
            frames |-> TRUE]

NextPool ==
  \E o \in Orders :
    \/ CreateOrderInsert(o)
    \/ CreateOrderEnqueue(o)
    \/ Tick
    \/ Dispatch(o)
    \/ GetOrder(o)
    \/ SetRouting(o)
    \/ Route(o)
    \/ RecordRouting(o)
    \/ SetBuilding(o)
    \/ SetSubmitted(o)
    \/ Execute(o)
    \/ PersistConfirmed(o)
    \/ RecordConfirmed(o)
    \/ CatchRecord(o)
    \/ CatchSetFailed(o)
    \/ JobCompleted(o)
    \/ JobFailed(o)

PoolSpec == InitPool /\ [][NextPool]_vars

\* ------------------------------------------------------ WebSocket clients
\* GET /api/orders/:orderId/ws: registerConnection(orderId, socket) runs up
\* to its first await (the registry entry is set, getOrderById is under
\* way), then the route writes the handshake frame
\* (the sockets are named in the order in which the clients connect)
RegisterConnection(o, s) ==
  /\ s \in env.clients
  /\ sock[s].readyState = "NEW"
  /\ s = "s2" => sock["s1"].readyState # "NEW"
  /\ env.lateOnly => job[o].state \in {"completed", "failed"}
  /\ orderConnections' = [orderConnections EXCEPT ![o] = s]
  /\ sock' = [sock EXCEPT ![s] =
                socketSend([NewSocket EXCEPT !.readyState = "OPEN",
                                             !.orderId = o,
                                             !.pc = "snapshot"],
                           ConnectedMsg(o))]
  /\ regLog' = [regLog EXCEPT ![o] = Append(@, s)]
  /\ UNCHANGED <<minted, orders, attempts, job, w, persistLog, sentLog,
                 dispatches, routerCall, env, limiter>>

\* registerConnection: getOrderById has resolved or rejected; the snapshot
\* is written if there is a row; getOrderAttempts is under way
RegisterSnapshot(s) ==
  /\ sock[s].pc = "snapshot"
  /\ \E fail \in MayFailRead :
       LET o == sock[s].orderId
           order == getOrderById(orders, o)
       IN  sock' = [sock EXCEPT ![s] =
                      IF fail
                      THEN [sock[s] EXCEPT !.pc = "replay",
                                           !.rejected = @ \cup {"getOrderById"}]
                      ELSE [(IF order = NoRow
                             THEN sock[s]
                             ELSE socketSend(sock[s], StateMsg(o, order)))
                            EXCEPT !.pc = "replay"]]
  /\ UNCHANGED <<minted, orders, attempts, job, w, persistLog, sentLog,
                 dispatches, routerCall, env, limiter, orderConnections, regLog>>

\* registerConnection: getOrderAttempts has resolved or rejected; one frame
\* per row is written; the close and error listeners are attached
RegisterReplay(s) ==
  /\ sock[s].pc = "replay"
  /\ \E fail \in MayFailRead :
       LET o == sock[s].orderId
           rows == getOrderAttempts(attempts, o)
           frames == [i \in 1..Len(rows) |-> AttemptMsg(o, rows[i])]
       IN  sock' = [sock EXCEPT ![s] =
                      IF fail
                      THEN [sock[s] EXCEPT !.pc = "done", !.listening = TRUE,
                                           !.rejected = @ \cup {"getOrderAttempts"}]
                      ELSE [socketSendAll(sock[s], frames)
                            EXCEPT !.pc = "done", !.listening = TRUE]]
  /\ UNCHANGED <<minted, orders, attempts, job, w, persistLog, sentLog,
                 dispatches, routerCall, env, limiter, orderConnections, regLog>>

\* the listener of registerConnection: orderConnections.delete(orderId)
Listener(s) ==
  IF sock[s].listening
  THEN orderConnections' = [orderConnections EXCEPT ![sock[s].orderId] = NoSocket]
  ELSE UNCHANGED orderConnections

\* the connection is gone (the client left, or the closing handshake has
\* ended): readyState CLOSED and the 'close' event
SocketClose(s) ==
  /\ sock[s].readyState \in {"OPEN", "CLOSING"}
  /\ sock' = [sock EXCEPT ![s].readyState = "CLOSED"]
  /\ Listener(s)
  /\ UNCHANGED <<minted, orders, attempts, job, w, persistLog, sentLog,
                 dispatches, routerCall, env, limiter, regLog>>

\* the socket fails: readyState CLOSING and the 'error' event; 'close' follows
SocketError(s) ==
  /\ sock[s].readyState = "OPEN"
  /\ sock' = [sock EXCEPT ![s].readyState = "CLOSING"]
  /\ Listener(s)
  /\ UNCHANGED <<minted, orders, attempts, job, w, persistLog, sentLog,
                 dispatches, routerCall, env, limiter, regLog>>

\* closeConnection(orderId) is called
CloseConnection(o) ==
  /\ LET r == closeConnection(orderConnections, sock, o)
     IN  /\ orderConnections' = r.registry
         /\ sock' = r.sockets
  /\ UNCHANGED <<minted, orders, attempts, job, w, persistLog, sentLog,
                 dispatches, routerCall, env, limiter, regLog>>

NextWs ==
  \/ Next
  \/ \E o \in Followed, s \in Sockets : RegisterConnection(o, s)
  \/ \E s \in Sockets : RegisterSnapshot(s)
  \/ \E s \in Sockets : RegisterReplay(s)
  \/ \E s \in Sockets : SocketClose(s)
  \/ \E s \in Sockets : SocketError(s)
  \/ \E o \in Followed : CloseConnection(o)

\* a worker whose queries resolve and whose draws are all 0.5, and one
\* client that connects at any time
InitWs ==
  /\ Start
  /\ limiter = [count |-> 0, ttl |-> 0]
  /\ env = [workerFaults |-> FALSE, concurrency |-> CONCURRENCY,
            rand |-> {50}, clients |-> {"s1"}, lateOnly |-> FALSE,
            frames |-> TRUE]

WsSpec == InitWs /\ [][NextWs]_vars

\* the same worker, and two clients that connect at any time, one after
\* the other; the frames they receive are not kept (the socket every
\* sendStatus wrote to is kept in sentLog)
InitReplace ==
  /\ Start
  /\ limiter = [count |-> 0, ttl |-> 0]
  /\ env = [workerFaults |-> FALSE, concurrency |-> CONCURRENCY,
            rand |-> {50}, clients |-> Sockets, lateOnly |-> FALSE,
            frames |-> FALSE]

ReplaceSpec == InitReplace /\ [][NextWs]_vars

\* a database whose queries may reject, draws that are all 0.5, and one
\* client that connects when the job of the order has ended
InitReplay ==
  /\ Start
  /\ limiter = [count |-> 0, ttl |-> 0]
  /\ env = [workerFaults |-> TRUE, concurrency |-> CONCURRENCY, rand |-> {50},
            clients |-> {"s1"}, lateOnly |-> TRUE, frames |-> TRUE]

ReplaySpec == InitReplay /\ [][NextWs]_vars

\* default deployment with a database whose queries resolve: the orders are
\* fewer than QUEUE_CONCURRENCY and than the limiter's max; the queue and
\* its workers are scheduled fairly and time passes
InitParallel ==
  /\ Start
  /\ limiter = [count |-> 0, ttl |-> 0]
  /\ env = [workerFaults |-> FALSE, concurrency |-> CONCURRENCY,
            rand |-> {50}, clients |-> {}, lateOnly |-> FALSE,
            frames |-> FALSE]

ParallelSpec ==
  /\ InitParallel /\ [][NextPool]_vars
  /\ WF_vars(Tick)
  /\ \A o \in Orders : WF_vars(CreateOrderEnqueue(o)) /\ WF_vars(Progress(o))

\* ------------------------------------------- dexRouter called directly
\* The functions of dexRouter.ts called with arguments of the caller's
\* choosing, as tests/dexRouter.test.ts does; routerCall keeps the call and
\* its result.  The functions share no state, so a run makes one call, or
\* the rounds of one loop of calls.
RouterPairs == {"sol_usdc", "usdc_sol", "usdc_usdt"}
RouterAmounts == {1, 50, 166, 258, 65536, 1000000}
RouterRand == {0, 45, 50, 54, 99}
RouterPrices == {9770, 977060, 1000000}
RouterSlippage == {-1, 0, 1, 100}
Venues == {"raydium", "meteora"}

CallGetRaydiumQuote ==
  /\ routerCall = NoCall
  /\ \E pair \in RouterPairs, amountIn \in RouterAmounts, r \in RouterRand :
       routerCall' = [fn |-> "getRaydiumQuote", pair |-> pair,
                      amountIn |-> amountIn,
                      quote |-> getRaydiumQuote(pair, amountIn, r),
                      trials |-> routerCall.trials,
                      thrown |-> routerCall.thrown]
  /\ UNCHANGED <<minted, orders, attempts, job, w, persistLog, sentLog,
                 dispatches, env, limiter, orderConnections, sock, regLog>>

CallGetMeteorQuote ==
  /\ routerCall = NoCall
  /\ \E pair \in RouterPairs, amountIn \in RouterAmounts, r \in RouterRand :
       routerCall' = [fn |-> "getMeteorQuote", pair |-> pair,
                      amountIn |-> amountIn,
                      quote |-> getMeteorQuote(pair, amountIn, r),
                      trials |-> routerCall.trials,
                      thrown |-> routerCall.thrown]
  /\ UNCHANGED <<minted, orders, attempts, job, w, persistLog, sentLog,
                 dispatches, env, limiter, orderConnections, sock, regLog>>

\* a token argument that is not a string: tokenIn.toLowerCase() throws
NotAToken == "undefined"

\* variant: the second quote is requested when the first has settled
CallRouteBestPriceInTurn ==
  /\ routerCall = NoCall
  /\ \E pair \in RouterPairs \cup {NotAToken}, amountIn \in RouterAmounts :
       routerCall' = [fn |-> "Promise.all", pair |-> pair,
                      amountIn |-> amountIn,
                      raydium |-> "sleeping", meteora |-> "none",
                      rr |-> 0, rm |-> 0,
                      trials |-> routerCall.trials,
                      thrown |-> routerCall.thrown]
  /\ UNCHANGED <<minted, orders, attempts, job, w, persistLog, sentLog,
                 dispatches, env, limiter, orderConnections, sock, regLog>>

\* routeBestPrice up to its await: Promise.all([getRaydiumQuote(...),
\* getMeteorQuote(...)]) calls both functions, each runs to its sleep
CallRouteBestPrice ==
  /\ routerCall = NoCall
  /\ \E pair \in RouterPairs \cup {NotAToken}, amountIn \in RouterAmounts :
       routerCall' = [fn |-> "Promise.all", pair |-> pair,
                      amountIn |-> amountIn,
                      raydium |-> "sleeping", meteora |-> "sleeping",
                      rr |-> 0, rm |-> 0,
                      trials |-> routerCall.trials,
                      thrown |-> routerCall.thrown]
  /\ UNCHANGED <<minted, orders, attempts, job, w, persistLog, sentLog,
                 dispatches, env, limiter, orderConnections, sock, regLog>>

\* getRaydiumQuote after its sleep: the quote with its draw, or the
\* TypeError of calculateBasePrice
RaydiumQuoteSettled ==
  /\ routerCall.fn = "Promise.all"
  /\ routerCall.raydium = "sleeping"
  /\ \E r \in RouterRand :
       routerCall' =
         IF routerCall.pair = NotAToken
         THEN [routerCall EXCEPT !.raydium = "rejected"]
         ELSE [routerCall EXCEPT !.raydium = "resolved", !.rr = r]
  /\ UNCHANGED <<minted, orders, attempts, job, w, persistLog, sentLog,
                 dispatches, env, limiter, orderConnections, sock, regLog>>

\* getMeteorQuote after its sleep, sleep(10000 + ...), which ends after the
\* sleep(150 + ...) of getRaydiumQuote started in the same turn
MeteorQuoteSettled ==
  /\ routerCall.fn = "Promise.all"
  /\ routerCall.meteora = "sleeping"
  /\ routerCall.raydium # "sleeping"
  /\ \E r \in RouterRand :
       routerCall' =
         IF routerCall.pair = NotAToken
         THEN [routerCall EXCEPT !.meteora = "rejected"]
         ELSE [routerCall EXCEPT !.meteora = "resolved", !.rm = r]
  /\ UNCHANGED <<minted, orders, attempts, job, w, persistLog, sentLog,
                 dispatches, env, limiter, orderConnections, sock, regLog>>

\* variant: the await ends with the first quote that resolves
PromiseSettledAny(call) ==
  \/ "rejected" \in {call.raydium, call.meteora}
  \/ "resolved" \in {call.raydium, call.meteora}

\* Promise.all: rejected with the first rejection, resolved when every
\* promise has resolved
PromiseSettled(call) ==
  \/ "rejected" \in {call.raydium, call.meteora}
  \/ call.raydium = "resolved" /\ call.meteora = "resolved"

\* routeBestPrice after its await: the rejection is thrown, or the best
\* quote is selected and the three quotes returned
RouteBestPriceResumed ==
  /\ routerCall.fn = "Promise.all"
  /\ PromiseSettled(routerCall)
  /\ routerCall' =
       IF "rejected" \in {routerCall.raydium, routerCall.meteora}
       THEN [routerCall EXCEPT !.fn = "routeBestPrice rejected"]
       ELSE [fn |-> "routeBestPrice", pair |-> routerCall.pair,
             amountIn |-> routerCall.amountIn,
             raydium |-> routerCall.raydium, meteora |-> routerCall.meteora,
             rr |-> routerCall.rr, rm |-> routerCall.rm,
             result |-> routeBestPrice(routerCall.pair, routerCall.amountIn,
                                       routerCall.rr, routerCall.rm),
             trials |-> routerCall.trials,
             thrown |-> routerCall.thrown]
  /\ UNCHANGED <<minted, orders, attempts, job, w, persistLog, sentLog,
                 dispatches, env, limiter, orderConnections, sock, regLog>>

CallExecuteSwap ==
  /\ routerCall = NoCall
  /\ \E dex \in Venues, amountIn \in RouterAmounts,
        expectedPrice \in RouterPrices, slippageBps \in RouterSlippage,
        r \in RouterRand, callId \in 1..JobAttempts :
       routerCall' = [fn |-> "executeSwap", amountIn |-> amountIn,
                      expectedPrice |-> expectedPrice,
                      slippageBps |-> slippageBps,
                      executedPrice |->
                        ExecutedPrice(expectedPrice, slippageBps, r),
                      result |-> executeSwap(dex, amountIn, expectedPrice,
                                             slippageBps, r, callId),
                      trials |-> routerCall.trials,
                      thrown |-> routerCall.thrown]
  /\ UNCHANGED <<minted, orders, attempts, job, w, persistLog, sentLog,
                 dispatches, env, limiter, orderConnections, sock, regLog>>

\* one round of the loop `for (i < attempts)`: executeSwap with the same
\* arguments and slippageBps = 1, left (break) once a call has thrown
SlippageTrial ==
  /\ routerCall = NoCall \/ routerCall.trials > 0
  /\ routerCall.trials < Trials
  /\ ~routerCall.thrown
  /\ \E amountIn \in RouterAmounts, expectedPrice \in RouterPrices,
        r \in RouterRand :
       /\ routerCall.trials > 0 =>
            /\ amountIn = routerCall.amountIn
            /\ expectedPrice = routerCall.expectedPrice
       /\ LET res == executeSwap("meteora", amountIn, expectedPrice, 1, r,
                                 routerCall.trials + 1)
          IN  routerCall' = [fn |-> "executeSwap", amountIn |-> amountIn,
                             expectedPrice |-> expectedPrice,
                             slippageBps |-> 1,
                             executedPrice |->
                               ExecutedPrice(expectedPrice, 1, r),
                             result |-> res,
                             trials |-> routerCall.trials + 1,
                             thrown |-> ~res.ok]
  /\ UNCHANGED <<minted, orders, attempts, job, w, persistLog, sentLog,
                 dispatches, env, limiter, orderConnections, sock, regLog>>

NextRouter ==
  \/ CallGetRaydiumQuote
  \/ CallGetMeteorQuote
  \/ CallRouteBestPrice
  \/ RaydiumQuoteSettled
  \/ MeteorQuoteSettled
  \/ RouteBestPriceResumed
  \/ CallExecuteSwap
  \/ SlippageTrial

\* only dexRouter.ts is loaded: no order, no worker, no client
InitRouter ==
  /\ Start
  /\ limiter = [count |-> 0, ttl |-> 0]
  /\ env = [workerFaults |-> FALSE, concurrency |-> CONCURRENCY,
            rand |-> RouterRand, clients |-> {}, lateOnly |-> FALSE,
            frames |-> FALSE]

RouterSpec == InitRouter /\ [][NextRouter]_vars

\* ================================================================ claims
Terminal == {"confirmed", "failed"}
Forward == <<"pending", "routing", "building", "submitted", "confirmed">>
LastOf(seq) == seq[Len(seq)]
SentStatuses(o) == [i \in 1..Len(sentLog[o]) |-> sentLog[o][i].status]
InFlight(o) == w[o].pc # "idle"

\* C1: the job of an order is handed to processOrder at most
\* QUEUE_MAX_RETRIES times; once that many attempts have failed the job is
\* dead, and a dead job has had exactly that many dispatches and is not
\* in flight.
C1_RetryCeiling ==
  \A o \in Orders :
    /\ dispatches[o] <= QUEUE_MAX_RETRIES
    /\ job[o].attemptsMade <= dispatches[o]
    /\ job[o].attemptsMade = QUEUE_MAX_RETRIES => job[o].state = "failed"
    /\ job[o].state = "failed" =>
         /\ dispatches[o] = QUEUE_MAX_RETRIES
         /\ ~InFlight(o)

C1_Witness ==
  \E o \in Orders : job[o].state = "failed" /\ dispatches[o] = QUEUE_MAX_RETRIES

\* C2: once the persisted status of an order is confirmed or failed, no step
\* changes its row.
C2_TerminalImmutable ==
  [][\A o \in DOMAIN orders :
       orders[o].status \in Terminal =>
         (o \in DOMAIN orders' /\ orders'[o] = orders[o])]_vars

\* the statuses seq are consecutive stages of Forward beginning at stage
\* number first, optionally followed by one failed that does not follow
\* confirmed
StageRun(seq, first) ==
  LET n == Len(seq)
      hasFailed == n > 0 /\ seq[n] = "failed"
      m == IF hasFailed THEN n - 1 ELSE n
  IN  /\ m <= Len(Forward) - first + 1
      /\ \A i \in 1..m : seq[i] = Forward[first + i - 1]
      /\ hasFailed /\ m > 0 => seq[m] # "confirmed"

\* C3: within one attempt the statuses written to the order (from routing)
\* and the statuses broadcast (from pending) run forward through the stages
\* without gap or repetition, and failed never follows confirmed.
C3_ForwardWithinAttempt ==
  \A o \in Orders :
    /\ StageRun(persistLog[o], 2)
    /\ StageRun(SentStatuses(o), 1)

\* C4: every enqueued order eventually has a persisted terminal status.
C4_EventuallyTerminal ==
  \A o \in Orders :
    (job[o].state = "queued") ~>
      (o \in DOMAIN orders /\ orders[o].status \in Terminal)

\* C5: when the attempt numbered QUEUE_MAX_RETRIES is about to hand its
\* failure to the queue, the order is persisted as failed with the error
\* text and the last broadcast is failed.
C5_LastFailurePersisted ==
  \A o \in Orders :
    (w[o].pc = "thrown" /\ w[o].attemptNumber = QUEUE_MAX_RETRIES) =>
      /\ o \in DOMAIN orders
      /\ orders[o].status = "failed"
      /\ orders[o].errorMessage = w[o].error
      /\ sentLog[o] # <<>>
      /\ LastOf(sentLog[o]).status = "failed"

\* C6: a persisted status failed comes with a non-empty persisted error
\* message, and the last envelope broadcast for the order is the failed
\* envelope carrying that message.
C6_FailedCarriesError ==
  \A o \in DOMAIN orders :
    orders[o].status = "failed" =>
      /\ orders[o].errorMessage # ""
      /\ sentLog[o] # <<>>
      /\ LastOf(sentLog[o]).status = "failed"
      /\ LastOf(sentLog[o]).error = orders[o].errorMessage

C6_Witness ==
  \E o \in DOMAIN orders :
    orders[o].status = "failed" /\ job[o].state = "failed"

\* C7: in an attempt numbered below QUEUE_MAX_RETRIES, a step that raises a
\* failure or runs the catch block writes nothing to the order and
\* broadcasts nothing, so the persisted status stays the last one the
\* attempt wrote and is not failed; the failure reaches the queue, which
\* queues the job again; failed is broadcast by the last attempt only.
C7_EarlyFailureKeepsStage ==
  /\ [][\A o \in Orders :
          /\ (w[o].attemptNumber \in 1..(QUEUE_MAX_RETRIES - 1)
              /\ w'[o].pc \in {"catchRecord", "catchSetFailed", "thrown"}
              /\ w'[o] # w[o]) =>
                /\ orders' = orders
                /\ sentLog' = sentLog
                /\ w'[o].pc # "catchSetFailed"
          /\ (w[o].attemptNumber \in 1..(QUEUE_MAX_RETRIES - 1)
              /\ w[o].pc = "catchRecord" /\ w'[o] # w[o]) =>
                w'[o].pc = "thrown"
          /\ (w[o].pc = "thrown" /\ w[o].attemptNumber < QUEUE_MAX_RETRIES
              /\ job'[o] # job[o]) =>
                /\ job'[o].state = "queued"
                /\ job'[o].attemptsMade = w[o].attemptNumber]_vars
  /\ [](\A o \in Orders :
          /\ (w[o].attemptNumber \in 1..(QUEUE_MAX_RETRIES - 1)
              /\ w[o].pc \in {"catchRecord", "thrown"}) =>
                /\ o \in DOMAIN orders => orders[o].status # "failed"
                /\ (o \in DOMAIN orders /\ persistLog[o] # <<>>) =>
                     orders[o].status = LastOf(persistLog[o])
          /\ (\E i \in 1..Len(sentLog[o]) : sentLog[o][i].status = "failed") =>
                dispatches[o] >= QUEUE_MAX_RETRIES)

C7_Witness ==
  \E o \in Orders :
    /\ job[o].state = "queued"
    /\ job[o].attemptsMade = 2
    /\ orders[o].status = "submitted"

\* C8: when an attempt hands a failure to the queue, order_attempts holds a
\* row for that attempt number with status failed and the error text, and
\* the failure handed over is the one that was raised.
C8_FailureRecordedAndRethrown ==
  \A o \in Orders :
    w[o].pc = "thrown" =>
      /\ w[o].attemptNumber \in DOMAIN attempts[o]
      /\ attempts[o][w[o].attemptNumber].status = "failed"
      /\ attempts[o][w[o].attemptNumber].errorMessage = w[o].error
      /\ w[o].thrown = w[o].error

\* C9: an attempt that finds no order row raises not-found before anything
\* is persisted or broadcast, and nothing is persisted or broadcast in the
\* rest of that attempt; the queue counts the attempt, queues the job again
\* with the backoff delay, and the job is dead after QUEUE_MAX_RETRIES.
C9_AbsentOrderFailsLikeAnyOther ==
  /\ [](\A o \in Orders :
          w[o].error = "Order not found" =>
            /\ persistLog[o] = <<>>
            /\ sentLog[o] = <<>>
            /\ w[o].pc \in {"catchRecord", "thrown"})
  /\ [][\A o \in Orders :
          (w[o].error = "Order not found" /\ w[o].pc = "thrown"
           /\ job'[o] # job[o]) =>
             /\ job'[o].attemptsMade = job[o].attemptsMade + 1
             /\ IF w[o].attemptNumber < QUEUE_MAX_RETRIES
                THEN /\ job'[o].state = "queued"
                     /\ job'[o].delay = BackoffDelay * 2^(w[o].attemptNumber - 1)
                ELSE job'[o].state = "failed"]_vars

C9_Witness ==
  \E o \in Orders :
    /\ w[o].error = "Order not found"
    /\ w[o].pc = "thrown"
    /\ w[o].attemptNumber = QUEUE_MAX_RETRIES

C12_ConcurrencyCeiling ==
  /\ Cardinality(Active) <= env.concurrency
  /\ Cardinality({o \in Orders : InFlight(o)}) <= env.concurrency

C12_Witness ==
  /\ Cardinality({o \in Orders : InFlight(o)}) = env.concurrency
  /\ \E o \in Orders : job[o].state = "queued" /\ job[o].delay = 0

\* a waiting job that a ceiling holds back
HeldBack(o) ==
  /\ job[o].state = "queued"
  /\ job[o].delay = 0
  /\ Cardinality(Active) >= env.concurrency \/ limiter.count >= LimiterMax

\* C13: a rate-limit window never counts more than LimiterMax dispatches;
\* no step changes the job of an order that a ceiling holds back (it stays
\* queued with the attempts it had); and a waiting job can be dispatched
\* as soon as both ceilings have room.
C13_RateCeilingHoldsJobsBack ==
  /\ [](limiter.count <= LimiterMax)
  /\ [][\A o \in Orders : HeldBack(o) => job'[o] = job[o]]_vars
  /\ [](\A o \in Orders :
          (/\ job[o].state = "queued"
           /\ job[o].delay = 0
           /\ Cardinality(Active) < env.concurrency
           /\ limiter.count < LimiterMax) => ENABLED Dispatch(o))

C13_Witness ==
  \E o \in Orders :
    /\ job[o].state = "active"
    /\ job[o].attemptsMade >= 1
    /\ limiter.count = 1

\* the socket passed to the latest registerConnection for order o
Latest(o) == regLog[o][Len(regLog[o])]
\* a step in which processOrder calls sendStatus for order o
Sends(o) == Len(sentLog'[o]) = Len(sentLog[o]) + 1
IsLive(frame) == frame.message = ""
IsRestored(frame) == frame.message \in {"Restored last known status", "Replayed attempt"}

\* C14: after a second registerConnection for an order, while the second
\* socket is open the registry holds that socket for the order, and every
\* sendStatus for the order writes to it and not to the first socket.
C14_SecondChannelReplacesFirst ==
  /\ [](\A o \in Orders :
          (Len(regLog[o]) >= 2 /\ sock[Latest(o)].readyState = "OPEN") =>
            orderConnections[o] = Latest(o))
  /\ [][\A o \in Orders :
          (Sends(o) /\ Len(regLog[o]) >= 2
           /\ sock[Latest(o)].readyState = "OPEN") =>
             LastOf(sentLog'[o]).to = Latest(o)]_vars

\* C15: on a socket no live status frame is received before the snapshot
\* and the replay frames of its registerConnection: none while the
\* registration is still reading, and none ahead of a restored frame.
C15_SnapshotBeforeLive ==
  \A s \in Sockets :
    /\ sock[s].pc \in {"snapshot", "replay"} =>
         \A i \in 1..Len(sock[s].inbox) : ~IsLive(sock[s].inbox[i])
    /\ \A i, j \in 1..Len(sock[s].inbox) :
         (i < j /\ IsLive(sock[s].inbox[i])) => ~IsRestored(sock[s].inbox[j])

\* the frames a socket has received after the route's handshake frame
Restored(s) == SelectSeq(sock[s].inbox, LAMBDA f : f.status # "connected")

\* frames are one replay frame for every row of order_attempts of o, in
\* ascending attempt-number order, each with the fields of its row
ReplayOfAllAttempts(o, frames) ==
  /\ \A i \in 1..Len(frames) :
       /\ frames[i].message = "Replayed attempt"
       /\ frames[i].attemptNumber \in DOMAIN attempts[o]
       /\ frames[i].status = attempts[o][frames[i].attemptNumber].status
       /\ frames[i].errorMessage = attempts[o][frames[i].attemptNumber].errorMessage
       /\ frames[i].dexUsed = attempts[o][frames[i].attemptNumber].dexUsed
  /\ \A i, j \in 1..Len(frames) :
       i < j => frames[i].attemptNumber < frames[j].attemptNumber
  /\ {frames[i].attemptNumber : i \in 1..Len(frames)} = DOMAIN attempts[o]

\* the socket has received the snapshot of the confirmed order and then the
\* replay of all its attempts
SnapshotThenReplay(s) ==
  LET o == sock[s].orderId
      got == Restored(s)
  IN  /\ got # <<>>
      /\ got[1] = StateMsg(o, orders[o])
      /\ got[1].status = "confirmed"
      /\ got[1].txHash # <<>>
      /\ ReplayOfAllAttempts(o, Tail(got))

\* a registerConnection that was called with the order persisted as
\* confirmed has run to its end, and the socket is still open
LateSubscriberDone(s) ==
  /\ sock[s].pc = "done"
  /\ sock[s].readyState = "OPEN"
  /\ sock[s].orderId \in DOMAIN orders
  /\ orders[sock[s].orderId].status = "confirmed"

C17_SendStatusSilentWithoutOpenChannel ==
  /\ [][\A o \in Orders :
          (Sends(o) /\ Target(orderConnections, sock, o) = NoSocket) =>
             /\ sock' = sock
             /\ orderConnections' = orderConnections
             /\ LastOf(sentLog'[o]).to = NoSocket
             /\ w'[o].pc # "catchRecord"
             /\ w'[o].pc = "thrown" => w'[o].thrown = w[o].error]_vars
  /\ [](\A o \in Orders :
          Target(orderConnections, sock, o) = NoSocket =>
            sendStatus(orderConnections, sock, o, Envelope("routing", "", 0)) = sock)

C17_Witness ==
  \E o \in Orders, s \in Sockets :
    /\ orderConnections[o] = s
    /\ sock[s].readyState = "CLOSED"
    /\ \E i \in 1..Len(sock[s].inbox) :
         IsLive(sock[s].inbox[i]) /\ sock[s].inbox[i].status = "submitted"
    /\ sentLog[o] # <<>>
    /\ LastOf(sentLog[o]).status = "confirmed"
    /\ LastOf(sentLog[o]).to = NoSocket

\* C18: a sendStatus that finds the registered socket open appends exactly
\* one frame to that socket, carrying the orderId, the status and the
\* payload, and touches no other socket; hence the frames of the calls of
\* the attempt in flight that were written to a socket are the last live
\* frames that socket received, in the order of the calls.
C18_OneFramePerSendInOrder ==
  /\ [][\A o \in Orders :
          LET s == Target(orderConnections, sock, o)
          IN  (Sends(o) /\ s # NoSocket) =>
                /\ LastOf(sentLog'[o]).to = s
                /\ sock'[s].inbox =
                     Append(sock[s].inbox, StatusMsg(o, LastOf(sentLog'[o])))
                /\ sock'[s].inbox[Len(sock'[s].inbox)].orderId = o
                /\ \A x \in Sockets \ {s} : sock'[x] = sock[x]]_vars
  /\ [](\A o \in Orders, s \in Sockets :
          LET live == SelectSeq(sock[s].inbox, IsLive)
              sent == SelectSeq(sentLog[o], LAMBDA e : e.to = s)
          IN  /\ Len(sent) <= Len(live)
              /\ \A i \in 1..Len(sent) :
                   live[Len(live) - Len(sent) + i] = StatusMsg(o, sent[i]))

C18_Witness ==
  \E o \in Orders, s \in Sockets :
    /\ sock[s].readyState = "OPEN"
    /\ Len(sentLog[o]) = Len(Forward)
    /\ \A i \in 1..Len(sentLog[o]) : sentLog[o][i].to = s
    /\ LastOf(sock[s].inbox) = StatusMsg(o, LastOf(sentLog[o]))

\* C19: in every state closeConnection(orderId) leaves no registration for
\* the order and the socket that was registered no longer open, changes
\* nothing else, changes nothing at all when there was no registration,
\* and a second call changes nothing more.
C19_CloseConnectionIdempotent ==
  \A o \in Orders :
    LET r == closeConnection(orderConnections, sock, o)
        s == orderConnections[o]
    IN  /\ r.registry[o] = NoSocket
        /\ \A x \in Orders \ {o} : r.registry[x] = orderConnections[x]
        /\ s # NoSocket =>
             /\ r.sockets[s].readyState # "OPEN"
             /\ \A x \in Sockets \ {s} : r.sockets[x] = sock[x]
        /\ s = NoSocket => (r.registry = orderConnections /\ r.sockets = sock)
        /\ closeConnection(r.registry, r.sockets, o) = r

C19_Witness ==
  \E o \in Orders, s \in Sockets :
    /\ regLog[o] = <<s>>
    /\ sock[s].pc = "snapshot"
    /\ sock[s].readyState = "CLOSING"
    /\ orderConnections[o] = NoSocket

\* C20: no registry entry refers to a socket that has closed or failed.
C20_NoStaleRegistration ==
  \A o \in Orders :
    orderConnections[o] # NoSocket =>
      sock[orderConnections[o]].readyState = "OPEN"

\* C21: routeBestPrice returns as bestQuote the quote with the greatest
\* amountOut of the two venue quotes, and the raydium quote when the two
\* amountOut values are equal.
C21_BestIsGreatestTieToRaydium ==
  routerCall.fn = "routeBestPrice" =>
    LET res == routerCall.result
    IN  /\ res.bestQuote \in {res.raydiumQuote, res.meteoraQuote}
        /\ res.bestQuote.amountOut >= res.raydiumQuote.amountOut
        /\ res.bestQuote.amountOut >= res.meteoraQuote.amountOut
        /\ res.raydiumQuote.amountOut = res.meteoraQuote.amountOut =>
             res.bestQuote.dex = "raydium"

\* C22: executeSwap throws exactly when the realized slippage
\* |executed - expected| / expected * 10000 is greater than slippageBps, and
\* a result it returns has the perturbed price as executedPrice, with a
\* realized slippage of at most slippageBps.
C22_ThrowsExactlyWhenSlippageExceeded ==
  routerCall.fn = "executeSwap" =>
    LET moved == Abs(routerCall.executedPrice - routerCall.expectedPrice)
        bound == routerCall.slippageBps * routerCall.expectedPrice
    IN  /\ ~routerCall.result.ok <=> moved * 10000 > bound
        /\ routerCall.result.ok =>
             /\ routerCall.result.executedPrice = routerCall.executedPrice
             /\ Abs(routerCall.result.executedPrice
                      - routerCall.expectedPrice) * 10000 <= bound

C22_Witness ==
  /\ routerCall.fn = "executeSwap"
  /\ ~routerCall.result.ok
  /\ routerCall.executedPrice # routerCall.expectedPrice

\* C23: with a tolerance of 1 bps, once the loop of executions has made its
\* ten trials, at least one of them has thrown the slippage error.
C23_SlippageErrorWithinTrials ==
  routerCall.trials = Trials => routerCall.thrown

\* h has 64 characters, each one of the alphabet
WellFormedTxHash(h) ==
  /\ Len(h) = TxHashLength
  /\ \A i \in 1..Len(h) : \E j \in 1..Len(chars) : h[i] = chars[j]

QuoteCalled == routerCall.fn \in {"getRaydiumQuote", "getMeteorQuote"}

\* C25 as stated: for every strictly positive input amount and every pair,
\* getRaydiumQuote and getMeteorQuote return a quote whose amountOut and fee
\* are strictly positive.
C25_QuotePositiveForEveryPositiveAmount ==
  (QuoteCalled /\ routerCall.amountIn > 0) =>
    (routerCall.quote.amountOut > 0 /\ routerCall.quote.fee > 0)

\* C25: for every input amount of at least 65536 units (2^-1058 when the
\* unit is the smallest positive double) and every pair, getRaydiumQuote and
\* getMeteorQuote return a quote whose amountOut and fee are strictly
\* positive.
C25_QuotePositiveAboveUnderflow ==
  (QuoteCalled /\ routerCall.amountIn >= 65536) =>
    (routerCall.quote.amountOut > 0 /\ routerCall.quote.fee > 0)

C25_Witness ==
  /\ QuoteCalled
  /\ routerCall.pair = "usdc_sol"
  /\ routerCall.amountIn = 65536
  /\ routerCall.quote.amountOut > 0
  /\ routerCall.quote.fee > 0

\* C26: with no more orders than the concurrency ceiling, a job whose delay
\* has elapsed can always be dispatched and an attempt in flight can always
\* take its next step, whatever the other orders' attempts are doing; and
\* an order whose attempt meets no failing step (its tolerance is not
\* negative, the queries resolve) is eventually confirmed and its job
\* completed.
C26_OrdersProcessedInParallel ==
  /\ [](\A o \in Orders :
          (job[o].state = "queued" /\ job[o].delay = 0) => ENABLED Dispatch(o))
  /\ [](\A o \in Orders : InFlight(o) => ENABLED Progress(o))
  /\ \A o \in Orders :
       (job[o].state = "queued" /\ orders[o].slippageBps >= 0)
         ~> (/\ job[o].state = "completed"
             /\ getOrderById(orders, o).status = "confirmed")

C26_Witness ==
  /\ Cardinality(Orders) <= env.concurrency
  /\ \A o \in Orders : job[o].state = "active" /\ InFlight(o)
  /\ \E o \in Orders : w[o].pc = "execute"

\* the moves of a job: enqueued, dispatched, completed, retried, dead
JobMoves ==
  {<<"none", "queued">>, <<"queued", "active">>, <<"active", "completed">>,
   <<"active", "queued">>, <<"active", "failed">>}

\* C27: a job changes state only along queued -> active -> completed |
\* queued (retry) | failed (dead); a completed or dead job never changes
\* again and is never run again; processOrder runs for a job only while it
\* is active; and a dispatch takes a queued job of which no attempt is
\* running and whose delay has elapsed, as attempt n+1 after exactly n
\* failed attempts and, for n >= 1, after the backoff of attempt n.
C27_JobLifecycle ==
  [][\A o \in Orders :
       /\ job'[o].state # job[o].state =>
            <<job[o].state, job'[o].state>> \in JobMoves
       /\ job[o].state \in {"completed", "failed"} =>
            /\ job'[o] = job[o]
            /\ dispatches'[o] = dispatches[o]
            /\ w'[o] = Idle
       /\ w'[o] # Idle => job'[o].state = "active"
       /\ (\/ dispatches'[o] # dispatches[o]
           \/ job'[o].state = "active" /\ job[o].state # "active") =>
            /\ job[o].state = "queued" /\ job'[o].state = "active"
            /\ w[o] = Idle
            /\ job[o].delay = 0
            /\ dispatches[o] = job[o].attemptsMade
            /\ dispatches'[o] = dispatches[o] + 1
            /\ w'[o].attemptNumber = job[o].attemptsMade + 1
            /\ job[o].attemptsMade >= 1 =>
                 job[o].waited >= BackoffDelay * 2^(job[o].attemptsMade - 1)
    ]_vars

C27_Witness ==
  \E o \in Orders :
    /\ job[o].state = "active"
    /\ job[o].attemptsMade = 1
    /\ dispatches[o] = 2
    /\ w[o].attemptNumber = 2
    /\ w[o].pc = "route"

\* how many stages apart two statuses are; failed is one step from any other
StageGap(a, b) ==
  IF a = b THEN 0
  ELSE IF a = "failed" \/ b = "failed" THEN 1
  ELSE LET at(x) == CHOOSE i \in 1..Len(Forward) : Forward[i] = x
       IN  Abs(at(a) - at(b))

\* C28 as stated: at every broadcast processOrder makes, the status
\* broadcast and the persisted status are at most one stage apart, and a
\* status other than pending is the persisted status, written last.
C28_BroadcastWithinOneStageOfPersisted ==
  [][\A o \in Followed :
       Sends(o) =>
         LET sent == LastOf(sentLog'[o]).status
         IN  /\ StageGap(sent, orders'[o].status) <= 1
             /\ sent # "pending" =>
                  (orders'[o].status = sent /\ LastOf(persistLog'[o]) = sent)
    ]_vars

\* C28: at every broadcast processOrder makes of routing, building,
\* submitted, confirmed or failed, on first attempts and on retries, the
\* persisted status is the status broadcast and it is the attempt's latest
\* write; at the pending broadcast of a first attempt the persisted status
\* is pending.
C28_BroadcastAfterItsWrite ==
  [][\A o \in Followed :
       Sends(o) =>
         LET sent == LastOf(sentLog'[o]).status
         IN  /\ sent # "pending" =>
                  (orders'[o].status = sent /\ LastOf(persistLog'[o]) = sent)
             /\ (sent = "pending" /\ dispatches[o] = 1) =>
                  orders'[o].status = "pending"
    ]_vars

C28_Witness ==
  \E o \in Followed :
    /\ dispatches[o] = 2
    /\ sentLog[o] # <<>>
    /\ LastOf(sentLog[o]).status = "building"
    /\ orders[o].status = "building"
    /\ w[o].pc = "setSubmitted"

\* C29: when an attempt that has routed moves the order to building, the
\* order's persisted record already holds both competing quote prices of
\* that routing.
C29_QuotesPersistedBeforeBuilding ==
  [][\A o \in Orders :
       (/\ w[o].pc = "setBuilding"
        /\ w'[o].pc = "setSubmitted"
        /\ o \in DOMAIN orders) =>
          /\ orders[o].quoteRaydium = w[o].raydiumQuote.price
          /\ orders[o].quoteMeteora = w[o].meteoraQuote.price
    ]_vars

\* C30: the step that follows a successful executeSwap writes status
\* confirmed with the executed price, output amount, transaction reference
\* and venue of that execution while the attempt is not yet recorded
\* confirmed and nothing is broadcast; a confirmed envelope is broadcast
\* only by the step that records the attempt as confirmed, when the order
\* row already holds status confirmed, and it carries the row's values.
C30_ConfirmedPersistedRecordedThenBroadcast ==
  [][\A o \in Followed :
       /\ (w[o].pc = "persistConfirmed" /\ w'[o].pc = "recordConfirmed") =>
            /\ orders'[o].status = "confirmed"
            /\ orders'[o].executedPrice = w[o].exec.executedPrice
            /\ orders'[o].amountOut = w[o].exec.amountOut
            /\ orders'[o].txHash = w[o].exec.txHash
            /\ orders'[o].selectedDex = w[o].bestQuote.dex
            /\ ~Sends(o)
            /\ attempts' = attempts
            /\ ~(/\ w[o].attemptNumber \in DOMAIN attempts[o]
                 /\ attempts[o][w[o].attemptNumber].status = "confirmed")
       /\ (Sends(o) /\ LastOf(sentLog'[o]).status = "confirmed") =>
            LET sent == LastOf(sentLog'[o]).payload
            IN  /\ w[o].pc = "recordConfirmed"
                /\ orders[o].status = "confirmed" /\ orders' = orders
                /\ LastOf(persistLog[o]) = "confirmed"
                /\ attempts'[o][w[o].attemptNumber].status = "confirmed"
                /\ sent.executedPrice = orders[o].executedPrice
                /\ sent.amountOut = orders[o].amountOut
                /\ sent.txHash = orders[o].txHash
                /\ sent.dex = orders[o].selectedDex
                /\ sent.txHash # <<>>
    ]_vars

C30_Witness ==
  \E o \in Followed :
    /\ w[o].pc = "returned"
    /\ sentLog[o] # <<>>
    /\ LastOf(sentLog[o]).status = "confirmed"
    /\ LastOf(sentLog[o]).payload.txHash = orders[o].txHash
    /\ orders[o].status = "confirmed"
    /\ attempts[o][w[o].attemptNumber].status = "confirmed"

\* C31: the n-th dispatch of an order's job runs as attempt n (the first as
\* attempt 1, each later one with the next number, none used twice); the
\* attempt records of an order are keyed by attempt numbers already
\* dispatched, one record per number, inserted one after the other; and no
\* step removes an attempt record.
C31_AttemptNumbersIncreaseRecordsKept ==
  [][\A o \in Orders :
       /\ dispatches'[o] # dispatches[o] =>
            /\ dispatches'[o] = dispatches[o] + 1
            /\ w'[o].attemptNumber = dispatches'[o]
            /\ w'[o].attemptNumber \notin DOMAIN attempts[o]
       /\ w'[o].attemptNumber # w[o].attemptNumber =>
            \/ dispatches'[o] # dispatches[o]
            \/ w'[o] = Idle
       /\ DOMAIN attempts[o] \subseteq DOMAIN attempts'[o]
       /\ DOMAIN attempts'[o] \subseteq 1..dispatches'[o]
       /\ {attempts'[o][n].attemptedAt : n \in DOMAIN attempts'[o]}
            = 1..Cardinality(DOMAIN attempts'[o])
       /\ \A n \in DOMAIN attempts[o] :
            attempts'[o][n].attemptedAt = attempts[o][n].attemptedAt
    ]_vars

C31_Witness ==
  \E o \in Orders :
    /\ dispatches[o] = QUEUE_MAX_RETRIES
    /\ w[o].attemptNumber = QUEUE_MAX_RETRIES
    /\ DOMAIN attempts[o] = 1..QUEUE_MAX_RETRIES
    /\ attempts[o][1].status = "failed"

\* C32: once the record of attempt n carries a venue, it carries that venue
\* from then on, whatever the attempt's later writes, confirmed or failed.
C32_AttemptRecordKeepsVenue ==
  [][\A o \in Orders : \A n \in DOMAIN attempts[o] :
       attempts[o][n].dexUsed # "" =>
         /\ n \in DOMAIN attempts'[o]
         /\ attempts'[o][n].dexUsed = attempts[o][n].dexUsed
    ]_vars

\* how many stages an attempt at this point of processOrder has broadcast
\* when it runs the sequence from the start
StagesSentAt(pc) ==
  IF pc = "getOrder" THEN 0
  ELSE IF pc = "setRouting" THEN 1
  ELSE IF pc \in {"route", "recordRouting", "setBuilding"} THEN 2
  ELSE IF pc = "setSubmitted" THEN 3
  ELSE IF pc \in {"execute", "persistConfirmed", "recordConfirmed"} THEN 4
  ELSE 5

\* C33: a dispatch starts processOrder at its first statement with no
\* quote, whatever the persisted status; and an attempt at any later point
\* of the sequence has, in this attempt, broadcast pending and every stage
\* up to that point in order and written every stage from routing up to that
\* point, and holds quotes only from its own quote request.
C33_EveryAttemptRunsFromTheStart ==
  /\ [][\A o \in Followed :
          dispatches'[o] # dispatches[o] =>
            /\ w'[o].pc = "getOrder"
            /\ w'[o].bestQuote = NoQuote
            /\ sentLog'[o] = <<>> /\ persistLog'[o] = <<>>
       ]_vars
  /\ [](\A o \in Followed :
          w[o].pc \notin {"idle", "catchRecord", "catchSetFailed", "thrown"} =>
            LET k == StagesSentAt(w[o].pc)
            IN  /\ SentStatuses(o) = SubSeq(Forward, 1, k)
                /\ persistLog[o] =
                     SubSeq(Forward, 2, IF w[o].pc = "recordConfirmed" THEN 5 ELSE k)
                /\ w[o].bestQuote # NoQuote <=> k >= 2 /\ w[o].pc # "route")

C33_Witness ==
  \E o \in Followed :
    /\ dispatches[o] = 2
    /\ 1 \in DOMAIN attempts[o]
    /\ attempts[o][1].errorMessage = "Slippage tolerance exceeded"
    /\ w[o].pc = "route"
    /\ orders[o].status = "routing"
    /\ SentStatuses(o) = <<"pending", "routing">>

\* C34: the call of routeBestPrice leaves both quote requests in progress;
\* routeBestPrice stays at its await while a request is in progress and
\* none has failed; it returns only with both requests resolved, its
\* three quotes being those two and one of them; and it throws, without a
\* result, when a request has failed.
C34_BothQuotesInProgressThenJoined ==
  [][/\ (routerCall = NoCall /\ routerCall'.fn = "Promise.all") =>
          /\ routerCall'.raydium = "sleeping"
          /\ routerCall'.meteora = "sleeping"
     /\ (routerCall.fn = "Promise.all"
         /\ routerCall'.fn \in {"routeBestPrice", "routeBestPrice rejected"}) =>
          /\ "sleeping" \in {routerCall.raydium, routerCall.meteora} =>
               routerCall'.fn = "routeBestPrice rejected"
          /\ "rejected" \in {routerCall.raydium, routerCall.meteora} <=>
               routerCall'.fn = "routeBestPrice rejected"
     /\ routerCall'.fn = "routeBestPrice" =>
          /\ routerCall'.raydium = "resolved"
          /\ routerCall'.meteora = "resolved"
          /\ routerCall'.result.raydiumQuote =
               getRaydiumQuote(routerCall'.pair, routerCall'.amountIn,
                               routerCall'.rr)
          /\ routerCall'.result.meteoraQuote =
               getMeteorQuote(routerCall'.pair, routerCall'.amountIn,
                              routerCall'.rm)
          /\ routerCall'.result.bestQuote \in
               {routerCall'.result.raydiumQuote, routerCall'.result.meteoraQuote}
    ]_vars

C34_Witness ==
  /\ routerCall.fn = "routeBestPrice"
  /\ routerCall.raydium = "resolved"
  /\ routerCall.meteora = "resolved"
  /\ routerCall.rr # routerCall.rm
  /\ routerCall.result.bestQuote.dex = "raydium"

\* C35: when an attempt hands its failure to the queue, the job is queued
\* again if the attempt number is below QUEUE_MAX_RETRIES and dead
\* otherwise, and the order is persisted as failed exactly if the attempt
\* number has reached QUEUE_MAX_RETRIES, whatever the failure handed over.
C35_OutcomeByAttemptNumberOnly ==
  /\ [][\A o \in Orders :
          (w[o].pc = "thrown" /\ job'[o] # job[o]) =>
            job'[o].state = IF w[o].attemptNumber < QUEUE_MAX_RETRIES
                            THEN "queued" ELSE "failed"]_vars
  /\ [](\A o \in Orders :
          w[o].pc = "thrown" =>
            (w[o].attemptNumber >= QUEUE_MAX_RETRIES
               <=> getOrderById(orders, o).status = "failed"))

\* C36: when the registry holds the socket of the latest registerConnection
\* for an order, a close or error event of a socket registered earlier for
\* that order leaves the registry entry as it is.
C36_OldChannelEventKeepsNewRegistration ==
  [][\A o \in Orders :
       (/\ Len(regLog[o]) >= 2
        /\ orderConnections[o] = Latest(o)
        /\ sock'[Latest(o)] = sock[Latest(o)]
        /\ \E i \in 1..(Len(regLog[o]) - 1) :
             /\ regLog[o][i] # Latest(o)
             /\ sock'[regLog[o][i]].readyState # sock[regLog[o][i]].readyState) =>
          orderConnections'[o] = Latest(o)
    ]_vars

\* C37: an order is persisted as failed only when its job is dead or is in
\* its last attempt (after which it is dead), and the order of a dead job,
\* if it exists, is persisted as failed.
C37_OrderFailedIffJobDead ==
  \A o \in DOMAIN orders :
    /\ orders[o].status = "failed" =>
         \/ job[o].state = "failed"
         \/ /\ job[o].state = "active"
            /\ job[o].attemptsMade + 1 >= JobAttempts
    /\ job[o].state = "failed" => orders[o].status = "failed"

\* C38: no attempt starts the stage sequence for an order persisted as
\* confirmed, and when executeSwap returns a result the order has no
\* transaction reference from an earlier execution.
C38_ExecuteSwapSucceedsAtMostOnce ==
  [][\A o \in Followed :
       /\ (w[o].pc = "getOrder" /\ w'[o].pc = "setRouting") =>
            orders[o].status # "confirmed"
       /\ (w[o].pc = "execute" /\ w'[o].pc = "persistConfirmed") =>
            /\ orders[o].txHash = <<>>
            /\ orders[o].status # "confirmed"
    ]_vars

\* C39: an order record is created with status pending while no job exists
\* for it; a job is added only for an existing order record; no step
\* removes an order record, so every dispatch finds one; and createOrder
\* does not end leaving an order record without a job.
C39_OrderBeforeJobAndJobForEveryOrder ==
  /\ [][\A o \in Orders :
          /\ (o \in DOMAIN orders' /\ o \notin DOMAIN orders) =>
               /\ orders'[o].status = "pending"
               /\ job[o].state = "none" /\ job'[o] = job[o]
          /\ (job[o].state = "none" /\ job'[o].state = "queued") =>
               o \in DOMAIN orders
          /\ DOMAIN orders \subseteq DOMAIN orders'
          /\ dispatches'[o] # dispatches[o] => o \in DOMAIN orders
       ]_vars
  /\ [](\A o \in DOMAIN orders : job[o].state # "unqueued")

\* C40: a persisted order with an error message has status failed, and a
\* persisted order with an executed price, an output amount or a
\* transaction reference has status confirmed.
C40_ResultFieldsMatchStatus ==
  \A o \in DOMAIN orders :
    /\ orders[o].errorMessage # "" => orders[o].status = "failed"
    /\ (\/ orders[o].executedPrice # 0
        \/ orders[o].amountOut # 0
        \/ orders[o].txHash # <<>>) => orders[o].status = "confirmed"
====
